---------------------------- MODULE Spec2Model ----------------------------
(***************************************************************************)
(* Inventory Distribution Manager: the matching core (core.py) and the     *)
(* "Process Distribution" handler of the Streamlit application (app.py).   *)
(*                                                                         *)
(* A Python str is modelled as a sequence of one-character strings, so     *)
(* that strip, casefold, endswith, rsplit and substring tests are computed *)
(* character by character.  A spreadsheet cell is a record                 *)
(*   [t, s, n, f]: t = "nan" | "str" | "int" | "float",                    *)
(* s the text of a str cell, n the integer (part) of an int/float cell,    *)
(* f the first decimal digit of a float cell.                              *)
(***************************************************************************)
EXTENDS Integers, Sequences, FiniteSets, TLC

(***************************************************************************)
(* Python str primitives                                                   *)
(***************************************************************************)
UpperChars == <<"A","B","C","D","E","F","G","H","I","J","K","L","M",
                "N","O","P","Q","R","S","T","U","V","W","X","Y","Z">>
LowerChars == <<"a","b","c","d","e","f","g","h","i","j","k","l","m",
                "n","o","p","q","r","s","t","u","v","w","x","y","z">>
DigitChars == <<"0","1","2","3","4","5","6","7","8","9">>

LowerOf == [i \in 1..Len(UpperChars) |-> LowerChars[i]]
UpperSet == { UpperChars[i] : i \in 1..Len(UpperChars) }
UpperIndex == [c \in UpperSet |-> CHOOSE i \in 1..Len(UpperChars) : UpperChars[i] = c]
DigitSet == { DigitChars[i] : i \in 1..Len(DigitChars) }

LowerChar(c) == IF c \in UpperSet THEN LowerOf[UpperIndex[c]] ELSE c

\* str.lower() / str.casefold() (the two agree on ASCII text)
casefold(s) == [i \in 1..Len(s) |-> LowerChar(s[i])]

IsSpace(c) == c = " "

\* index of the first non-space character at or after i (Len(s) + 1: none)
RECURSIVE FirstNonSpace(_, _)
FirstNonSpace(s, i) ==
  IF i > Len(s) THEN i ELSE IF IsSpace(s[i]) THEN FirstNonSpace(s, i + 1) ELSE i

\* index of the last non-space character at or before i (0: none)
RECURSIVE LastNonSpace(_, _)
LastNonSpace(s, i) ==
  IF i = 0 THEN 0 ELSE IF IsSpace(s[i]) THEN LastNonSpace(s, i - 1) ELSE i

\* str.strip()
strip(s) ==
  IF s = <<>> \/ (~IsSpace(s[1]) /\ ~IsSpace(s[Len(s)])) THEN s
  ELSE SubSeq(s, FirstNonSpace(s, 1), LastNonSpace(s, Len(s)))

\* str.endswith(suf)
endswith(s, suf) ==
  Len(s) >= Len(suf) /\ \A j \in 1..Len(suf) : s[Len(s) - Len(suf) + j] = suf[j]

\* sub in s
contains(s, sub) ==
  \E i \in 1..(Len(s) - Len(sub) + 1) : \A j \in 1..Len(sub) : s[i + j - 1] = sub[j]

IsDigitChar(c) == c \in DigitSet

\* str.isdigit(): non-empty and all digits
isdigit(s) == s # <<>> /\ \A i \in 1..Len(s) : IsDigitChar(s[i])

\* s.replace(".", "", 1): the first "." removed
RemoveFirstDot(s) ==
  IF \E i \in 1..Len(s) : s[i] = "."
  THEN LET i == CHOOSE k \in 1..Len(s) : s[k] = "." /\ \A j \in 1..(k - 1) : s[j] # "."
       IN  SubSeq(s, 1, i - 1) \o SubSeq(s, i + 1, Len(s))
  ELSE s

\* s.replace(",", ""): every "," removed
RECURSIVE RemoveCommas(_)
RemoveCommas(s) ==
  IF s = <<>> THEN <<>>
  ELSE IF Head(s) = "," THEN RemoveCommas(Tail(s))
       ELSE <<Head(s)>> \o RemoveCommas(Tail(s))

\* str(n) for an int n
RECURSIVE NatToStr(_)
NatToStr(n) ==
  IF n < 10 THEN <<DigitChars[n + 1]>>
  ELSE NatToStr(n \div 10) \o <<DigitChars[(n % 10) + 1]>>

IntToStr(n) == IF n < 0 THEN <<"-">> \o NatToStr(-n) ELSE NatToStr(n)

\* int(s) of a digit string
RECURSIVE DigitsToNat(_)
DigitsToNat(s) ==
  IF s = <<>> THEN 0
  ELSE 10 * DigitsToNat(SubSeq(s, 1, Len(s) - 1))
       + (CHOOSE d \in 0..9 : DigitChars[d + 1] = s[Len(s)])

(***************************************************************************)
(* Cells                                                                   *)
(***************************************************************************)
NaN == [t |-> "nan", s |-> <<>>, n |-> 0, f |-> 0]
StrCell(s) == [t |-> "str", s |-> s, n |-> 0, f |-> 0]
IntCell(n) == [t |-> "int", s |-> <<>>, n |-> n, f |-> 0]
FloatCell(n, f) == [t |-> "float", s |-> <<>>, n |-> n, f |-> f]

\* pd.isna(val)
isna(val) == val.t = "nan"

\* str(val)
ToStr(val) ==
  CASE val.t = "str" -> val.s
    [] val.t = "int" -> IntToStr(val.n)
    [] val.t = "float" -> IntToStr(val.n) \o <<".", DigitChars[val.f + 1]>>
    [] OTHER -> <<"n","a","n">>

NO_SIZE == <<"N","O","_","S","I","Z","E">>
SEP == <<" ","-"," ">>

(***************************************************************************)
(* core.py: value normalisation and key derivation                         *)
(***************************************************************************)
normalize_key(val) ==
  IF isna(val) THEN <<>>
  ELSE IF val.t = "int" THEN IntToStr(val.n)
  ELSE IF val.t = "float" THEN
         IF val.f = 0 THEN IntToStr(val.n) ELSE strip(ToStr(val))
  ELSE LET s == strip(ToStr(val))
       IN  IF endswith(s, <<".","0">>)
              /\ isdigit(RemoveFirstDot(SubSeq(s, 1, Len(s) - 2)))
           THEN SubSeq(s, 1, Len(s) - 2)
           ELSE s

NoSizeVariants ==
  { <<"n","o","_","s","i","z","e">>, <<"n","o"," ","s","i","z","e">>,
    <<"n","o","s","i","z","e">>, <<"n","o","-","s","i","z","e">> }

normalize_size(val) ==
  IF isna(val) \/ val = StrCell(<<>>) THEN NO_SIZE
  ELSE LET s0 == strip(ToStr(val))
           s  == IF endswith(s0, <<".","0">>) THEN SubSeq(s0, 1, Len(s0) - 2) ELSE s0
       IN  IF s0 = <<>> THEN NO_SIZE
           ELSE IF casefold(s) \in NoSizeVariants THEN NO_SIZE
           ELSE s

\* s.rsplit(" - ", 1): position of the last occurrence of " - " at or before
\* position i of s (0: none)
RECURSIVE LastSepFrom(_, _)
LastSepFrom(s, i) ==
  IF i < 1 THEN 0
  ELSE IF s[i] = " " /\ s[i + 1] = "-" /\ s[i + 2] = " " THEN i
  ELSE LastSepFrom(s, i - 1)

LastSep(s) == LastSepFrom(s, Len(s) - 2)

\* lines 52-59: s is the normalised item name, title and size the two sides
\* of its last " - " (p = 0: there is none)
SplitResult(s, p, title, size) ==
  IF p # 0 /\ title # <<>> /\ size # <<>> /\ size # NO_SIZE
  THEN <<title, size>>
  ELSE <<strip(s), NO_SIZE>>

SplitAt(s, p) ==
  SplitResult(s, p, strip(SubSeq(s, 1, p - 1)),
              normalize_size(StrCell(strip(SubSeq(s, p + 3, Len(s))))))

SplitNormalized(s) == IF s = <<>> THEN <<<<>>, NO_SIZE>> ELSE SplitAt(s, LastSep(s))

item_name_to_title_size(item_name) ==
  IF isna(item_name) THEN <<<<>>, NO_SIZE>>
  ELSE SplitNormalized(normalize_key(item_name))

\* lines 65-69
KeyOfNormalized(title_norm, size_norm) ==
  IF title_norm = <<>> THEN <<>>
  ELSE IF size_norm # <<>> /\ size_norm # NO_SIZE
       THEN casefold(title_norm \o SEP \o size_norm)
       ELSE casefold(title_norm)

build_title_size_key(title, size) ==
  KeyOfNormalized(strip(normalize_key(StrCell(title))), normalize_size(StrCell(size)))

(***************************************************************************)
(* Tabular datasets: [columns |-> sequence of headers,                      *)
(*                    rows    |-> sequence of rows, each a sequence of      *)
(*                                cells aligned with columns]               *)
(***************************************************************************)
None == <<"None">>

\* Python truthiness of an Optional[str]
Truthy(c) == c # None /\ c # <<>>

IndexOf(seq, e) ==
  IF \E i \in 1..Len(seq) : seq[i] = e
  THEN CHOOSE i \in 1..Len(seq) : seq[i] = e /\ \A j \in 1..(i - 1) : seq[j] # e
  ELSE 0

InSeq(seq, e) == IndexOf(seq, e) # 0

\* r.get(col, "")
RowGet(df, r, col) ==
  IF InSeq(df.columns, col) THEN r[IndexOf(df.columns, col)] ELSE StrCell(<<>>)

\* df[col] = vals : overwrite the column in place, or append it
SetColumn(df, col, vals) ==
  IF InSeq(df.columns, col)
  THEN [df EXCEPT !.rows = [i \in 1..Len(df.rows) |->
                              [df.rows[i] EXCEPT ![IndexOf(df.columns, col)] = vals[i]]]]
  ELSE [columns |-> Append(df.columns, col),
        rows    |-> [i \in 1..Len(df.rows) |-> Append(df.rows[i], vals[i])]]

(***************************************************************************)
(* core.py: identify_columns                                               *)
(***************************************************************************)
H_SIZE == <<"s","i","z","e">>
H_QUANTITY == <<"q","u","a","n","t","i","t","y">>
H_QTY == <<"q","t","y">>
H_STOCK == <<"s","t","o","c","k">>
H_ITEM_NAME == <<"i","t","e","m"," ","n","a","m","e">>
H_PRODUCT_NAME == <<"p","r","o","d","u","c","t"," ","n","a","m","e">>
H_TITLE == <<"t","i","t","l","e">>
COL_Quantity == <<"Q","u","a","n","t","i","t","y">>
COL_TitleSize == <<"T","i","t","l","e"," ","-"," ","S","i","z","e">>

\* c.lower().strip()
LowerKey(c) == strip(casefold(c))

\* keys of cols_map in insertion order (a dict keeps the place of a key's first insertion)
RECURSIVE ColsMapKeys(_)
ColsMapKeys(cols) ==
  IF cols = <<>> THEN <<>>
  ELSE LET init == ColsMapKeys(SubSeq(cols, 1, Len(cols) - 1))
           k    == LowerKey(cols[Len(cols)])
       IN  IF InSeq(init, k) THEN init ELSE Append(init, k)

\* cols_map[k]: a later header with the same lowered form overwrites the value
ColsMapVal(cols, k) ==
  cols[CHOOSE i \in 1..Len(cols) :
         LowerKey(cols[i]) = k /\ \A j \in (i + 1)..Len(cols) : LowerKey(cols[j]) # k]

IdentifyStep(acc, c_lower, c_orig) ==
  [size  |-> IF contains(c_lower, H_SIZE) /\ acc.size = None THEN c_orig ELSE acc.size,
   qty   |-> IF (contains(c_lower, H_QUANTITY) \/ contains(c_lower, H_QTY)
                 \/ contains(c_lower, H_STOCK)) /\ acc.qty = None
             THEN c_orig ELSE acc.qty,
   title |-> IF (contains(c_lower, H_ITEM_NAME) \/ contains(c_lower, H_PRODUCT_NAME))
                /\ acc.title = None
             THEN c_orig
             ELSE IF contains(c_lower, H_TITLE) /\ acc.title = None
                  THEN c_orig ELSE acc.title]

RECURSIVE IdentifyLoop(_, _, _)
IdentifyLoop(cols, keys, n) ==
  IF n = 0 THEN [size |-> None, qty |-> None, title |-> None]
  ELSE IdentifyStep(IdentifyLoop(cols, keys, n - 1), keys[n], ColsMapVal(cols, keys[n]))

\* lines 92-95: the "Quantity" fallback and the returned tuple
IdentifyResult(cols, r) ==
  <<r.size,
    IF ~Truthy(r.qty) /\ InSeq(cols, COL_Quantity) THEN COL_Quantity ELSE r.qty,
    r.title>>

IdentifyOver(cols, keys) == IdentifyResult(cols, IdentifyLoop(cols, keys, Len(keys)))

\* returns the tuple (size_col, qty_col, title_col)
identify_columns(cols) == IdentifyOver(cols, ColsMapKeys(cols))

(***************************************************************************)
(* core.py: add_title_size_column                                          *)
(***************************************************************************)
\* lines 106-108
JoinTitleSize(title, size) ==
  IF title # <<>> /\ size # <<>> /\ size # NO_SIZE
  THEN title \o SEP \o size
  ELSE title

\* _joined(r), lines 101-108
Joined(df, r, title_col, size_col) ==
  JoinTitleSize(normalize_key(RowGet(df, r, title_col)),
                IF Truthy(size_col) /\ InSeq(df.columns, size_col)
                THEN normalize_size(RowGet(df, r, size_col))
                ELSE NO_SIZE)

add_title_size_column(df, title_col, size_col) ==
  SetColumn(df, COL_TitleSize,
            [i \in 1..Len(df.rows) |-> StrCell(Joined(df, df.rows[i], title_col, size_col))])

(***************************************************************************)
(* core.py: load_inventory_from_uploads                                    *)
(*                                                                         *)
(* uploaded_files is the dict in insertion order: a sequence of            *)
(*   [loc |-> name, file |-> file object].                                 *)
(* A file object is [present, readable, columns, rows]: present = FALSE is *)
(* None, readable = FALSE makes _read_uploaded raise.                      *)
(***************************************************************************)
NoneFile == [present |-> FALSE, readable |-> FALSE, columns |-> <<>>, rows |-> <<>>]

\* float(s) accepts [sign] digits [. digits] | [sign] . digits
IsFloatText(s) ==
  LET u == IF s # <<>> /\ Head(s) \in {"-", "+"} THEN Tail(s) ELSE s
      d == IndexOf(u, ".")
      ip == IF d = 0 THEN u ELSE SubSeq(u, 1, d - 1)
      fp == IF d = 0 THEN <<>> ELSE SubSeq(u, d + 1, Len(u))
  IN  /\ ip # <<>> \/ fp # <<>>
      /\ ip = <<>> \/ isdigit(ip)
      /\ fp = <<>> \/ isdigit(fp)

\* int(float(s)) for s accepted by float(): truncation toward zero
FloatTextToInt(s) ==
  LET neg == s # <<>> /\ Head(s) = "-"
      u == IF s # <<>> /\ Head(s) \in {"-", "+"} THEN Tail(s) ELSE s
      d == IndexOf(u, ".")
      ip == IF d = 0 THEN u ELSE SubSeq(u, 1, d - 1)
  IN  IF neg THEN 0 - DigitsToNat(ip) ELSE DigitsToNat(ip)

\* lines 150-161: the quantity of one row
\* lines 157-161 on the text s of a str cell, commas removed and stripped
ParseQtyText(s) ==
  IF s = <<>> THEN 0
  ELSE IF IsFloatText(s) THEN FloatTextToInt(s)
  ELSE 0                                     \* except Exception: qty = 0

\* lines 153-159 on the cell val
ParseQtyCell(val) ==
  IF isna(val) THEN 0
  ELSE IF val.t = "str" THEN ParseQtyText(strip(RemoveCommas(val.s)))
  ELSE val.n                                 \* int(float(val))

\* lines 150-161: the quantity of one row
ParseQty(df, r, qty_col) ==
  IF Truthy(qty_col) /\ InSeq(df.columns, qty_col)
  THEN ParseQtyCell(RowGet(df, r, qty_col))
  ELSE 0

\* lines 163-164: the inventory key of one row
RowKey(df, r) == casefold(normalize_key(RowGet(df, r, COL_TitleSize)))

\* Accumulate with the quantity assigned instead of added
AccumulateOverwrite(inventory, key, loc_name, qty, all_locations) ==
  IF key = <<>> THEN inventory
  ELSE [k \in (DOMAIN inventory) \cup {key} |->
          IF k = key
          THEN [(IF key \in DOMAIN inventory THEN inventory[key]
                 ELSE [l \in all_locations |-> 0]) EXCEPT ![loc_name] = qty]
          ELSE inventory[k]]

\* lines 165-169: accumulate one row
Accumulate(inventory, key, loc_name, qty, all_locations) ==
  IF key = <<>> THEN inventory
  ELSE [k \in (DOMAIN inventory) \cup {key} |->
          IF k = key
          THEN [(IF key \in DOMAIN inventory THEN inventory[key]
                 ELSE [l \in all_locations |-> 0]) EXCEPT ![loc_name] = @ + qty]
          ELSE inventory[k]]

\* lines 149-169: the row loop over the first n rows of df
RECURSIVE LoadRows(_, _, _, _, _, _)
LoadRows(inventory, df, qty_col, loc_name, all_locations, n) ==
  IF n = 0 THEN inventory
  ELSE Accumulate(LoadRows(inventory, df, qty_col, loc_name, all_locations, n - 1),
                  RowKey(df, df.rows[n]), loc_name,
                  ParseQty(df, df.rows[n], qty_col), all_locations)

Warn(kind, loc) == [kind |-> kind, loc |-> loc]

\* lines 133-172: one iteration of the loop over uploaded_files
\* lines 147-169: df is the dataset with its "Title - Size" column
LoadEnriched(acc, loc_name, df, qty_col, all_locations) ==
  [inventory |-> LoadRows(acc.inventory, df, qty_col, loc_name, all_locations,
                          Len(df.rows)),
   warnings |-> IF ~Truthy(qty_col)
                THEN Append(acc.warnings, Warn("MissingQuantity", loc_name))
                ELSE acc.warnings,
   enriched_dfs |-> Append(acc.enriched_dfs, [loc |-> loc_name, df |-> df])]

\* LoadDetected with a file that lacks a Quantity column skipped after its warning
LoadDetectedNeedsQuantity(acc, loc_name, raw, cols, all_locations) ==
  IF ~Truthy(cols[3])
  THEN [acc EXCEPT !.warnings = Append(@, Warn("MissingTitle", loc_name))]
  ELSE IF ~Truthy(cols[2])
       THEN [acc EXCEPT !.warnings = Append(@, Warn("MissingQuantity", loc_name))]
       ELSE LoadEnriched(acc, loc_name, add_title_size_column(raw, cols[3], cols[1]),
                         cols[2], all_locations)

\* lines 137-169: raw is the dataset read, cols = (size_col, qty_col, title_col)
LoadDetected(acc, loc_name, raw, cols, all_locations) ==
  IF ~Truthy(cols[3])
  THEN [acc EXCEPT !.warnings = Append(@, Warn("MissingTitle", loc_name))]
  ELSE LoadEnriched(acc, loc_name, add_title_size_column(raw, cols[3], cols[1]),
                    cols[2], all_locations)

\* LoadFile with the error of an unreadable file swallowed without a warning
LoadFileSilent(acc, loc_name, file, all_locations) ==
  IF ~file.present \/ ~file.readable THEN acc
  ELSE LoadDetected(acc, loc_name, [columns |-> file.columns, rows |-> file.rows],
                    identify_columns(file.columns), all_locations)

\* lines 133-172: one iteration of the loop over uploaded_files
LoadFile(acc, loc_name, file, all_locations) ==
  IF ~file.present THEN acc
  ELSE IF ~file.readable
       THEN [acc EXCEPT !.warnings = Append(@, Warn("Error", loc_name))]
  ELSE LoadDetected(acc, loc_name, [columns |-> file.columns, rows |-> file.rows],
                    identify_columns(file.columns), all_locations)

RECURSIVE LoadLoop(_, _, _)
LoadLoop(uploaded_files, all_locations, n) ==
  IF n = 0 THEN [inventory |-> <<>>, warnings |-> <<>>, enriched_dfs |-> <<>>]
  ELSE LoadFile(LoadLoop(uploaded_files, all_locations, n - 1),
                uploaded_files[n].loc, uploaded_files[n].file, all_locations)

\* returns (inventory, warnings, enriched_dfs)
load_inventory_from_uploads(uploaded_files) ==
  LoadLoop(uploaded_files,
           { uploaded_files[i].loc : i \in 1..Len(uploaded_files) },
           Len(uploaded_files))

(***************************************************************************)
(* core.py: add_stock_columns_from_inventory                               *)
(***************************************************************************)
\* lines 190-194: (title, size, key, title_only) of one product-list row
KeysOfTitleSize(title, size) ==
  <<title, size, build_title_size_key(title, size),
    IF title # <<>> THEN build_title_size_key(title, NO_SIZE) ELSE <<>>>>

KeysOfPair(ts) == KeysOfTitleSize(ts[1], ts[2])

row_key(df, r, item_name_col) ==
  KeysOfPair(item_name_to_title_size(RowGet(df, r, item_name_col)))

\* inventory[k].get(loc, 0)
InvGet(inventory, k, loc) ==
  IF loc \in DOMAIN inventory[k] THEN inventory[k][loc] ELSE 0

\* lines 201-209: the two-tier lookup of one row for one location
\* LookupKeys with the title-only entry consulted before the full key
LookupKeysTitleFirst(inventory, key, title_only, loc) ==
  IF title_only # <<>> /\ title_only \in DOMAIN inventory
  THEN [v |-> InvGet(inventory, title_only, loc), found |-> TRUE]
  ELSE IF key # <<>> /\ key \in DOMAIN inventory
       THEN [v |-> InvGet(inventory, key, loc), found |-> TRUE]
       ELSE [v |-> 0, found |-> FALSE]

LookupKeys(inventory, key, title_only, loc) ==
  IF key # <<>> /\ key \in DOMAIN inventory
  THEN [v |-> InvGet(inventory, key, loc), found |-> TRUE]
  ELSE IF title_only # <<>> /\ title_only \in DOMAIN inventory
       THEN [v |-> InvGet(inventory, title_only, loc), found |-> TRUE]
       ELSE [v |-> 0, found |-> FALSE]

Lookup(inventory, rk, loc) == LookupKeys(inventory, rk[3], rk[4], loc)

\* lines 210-211: matched.add(i) on the set of matched row indices
MatchedAdd(matched, look) ==
  matched \cup { i \in 1..Len(look) : look[i].found }

\* StockStep with a match recorded per (row, location) instead of per row
StockStepPerLocation(prev, loc, look) ==
  [df |-> SetColumn(prev.df, loc, [i \in 1..Len(look) |-> IntCell(look[i].v)]),
   matched |-> prev.matched \cup { <<i, loc>> : i \in { j \in 1..Len(look) : look[j].found } }]

\* lines 199-213: one location's pass; look holds (v, found) of every row
StockStep(prev, loc, look) ==
  [df |-> SetColumn(prev.df, loc, [i \in 1..Len(look) |-> IntCell(look[i].v)]),
   matched |-> MatchedAdd(prev.matched, look)]

\* lines 198-213: the loop over the first n locations
RECURSIVE StockLoop(_, _, _, _, _)
StockLoop(product_df, keys, inventory, locations, n) ==
  IF n = 0 THEN [df |-> product_df, matched |-> {}]
  ELSE StockStep(StockLoop(product_df, keys, inventory, locations, n - 1),
                 locations[n],
                 [i \in 1..Len(keys) |-> Lookup(inventory, keys[i], locations[n])])

\* line 215
StockResult(r) == [df |-> r.df, match_count |-> Cardinality(r.matched)]

\* returns (df, len(matched))
add_stock_columns_from_inventory(product_df, item_name_col, inventory, locations) ==
  StockResult(StockLoop(product_df,
                        [i \in 1..Len(product_df.rows) |->
                           row_key(product_df, product_df.rows[i], item_name_col)],
                        inventory, locations, Len(locations)))

(***************************************************************************)
(* app.py: the fixed location set (line 187), in tab order                 *)
(***************************************************************************)
Locations ==
  << <<"E","c","o","m">>, <<"M","i","r","p","u","r">>, <<"W","a","r","i">>,
     <<"C","u","m","i","l","l","a">>, <<"S","y","l","h","e","t">> >>

(***************************************************************************)
(* Bounds and input sets                                                   *)
(***************************************************************************)
NumLocs == 2        \* locations (the first NumLocs of Locations) that may get a file
MaxInvRows == 2     \* rows of all uploaded location files together
MaxProdRows == 2    \* rows of the product list
MaxCols == 3        \* headers of a dataset given to identify_columns

COL_Title == <<"T","i","t","l","e">>
COL_ItemName == <<"I","t","e","m"," ","N","a","m","e">>
COL_ProductName == <<"P","r","o","d","u","c","t"," ","n","a","m","e">>
COL_TITLE_sp == <<"T","I","T","L","E"," ">>
COL_Size == <<"S","i","z","e">>
COL_Qty == <<"Q","t","y">>
COL_SKU == <<"S","K","U">>
COL_Name == <<"N","a","m","e">>

HeaderPool ==
  {COL_Title, COL_ItemName, COL_ProductName, COL_TITLE_sp, COL_Size, COL_Qty, COL_SKU}

\* sequences without repetition of at most n elements of S
RECURSIVE DistinctSeqs(_, _)
DistinctSeqs(S, n) ==
  IF n = 0 THEN {<<>>}
  ELSE LET shorter == DistinctSeqs(S, n - 1)
       IN  shorter \cup
           { Append(p[1], p[2]) :
               p \in { p \in shorter \X S : Len(p[1]) = n - 1 /\ ~InSeq(p[1], p[2]) } }

\* a location-file layout: its headers and the role of each column
FullLayout == [columns |-> <<COL_Title, COL_Size, COL_Qty>>, roles |-> <<"t", "s", "q">>]
NoQtyLayout == [columns |-> <<COL_ItemName, COL_Size>>, roles |-> <<"t", "s">>]
NoTitleLayout == [columns |-> <<COL_Name, COL_Size, COL_Qty>>, roles |-> <<"t", "s", "q">>]
Layouts == {FullLayout, NoQtyLayout, NoTitleLayout}

\* rows of a location file as (title, size, quantity) cells
InvRowOptions ==
  { [t |-> StrCell(<<" ","A"," ">>), s |-> StrCell(<<"N","o"," ","S","i","z","e">>),
                                                                q |-> IntCell(2)],
    [t |-> StrCell(<<"A">>),         s |-> StrCell(<<"M">>),    q |-> StrCell(<<"1",",","0">>)],
    [t |-> StrCell(<<"a">>),         s |-> StrCell(<<"m">>),    q |-> FloatCell(1, 5)],
    [t |-> NaN,                      s |-> StrCell(<<"M">>),    q |-> IntCell(4)],
    [t |-> StrCell(<<"a">>),         s |-> FloatCell(4, 0),     q |-> StrCell(<<"x">>)] }

\* rows of the location files the join is studied with
JoinRowOptions ==
  { [t |-> StrCell(<<" ","A"," ">>), s |-> NaN,                 q |-> IntCell(2)],
    [t |-> StrCell(<<"A">>),         s |-> StrCell(<<"M">>),    q |-> StrCell(<<"1",",","0">>)],
    [t |-> StrCell(<<"b">>),         s |-> StrCell(<<"M">>),    q |-> IntCell(3)] }

MakeFile(layout, rows) ==
  [present |-> TRUE, readable |-> TRUE, columns |-> layout.columns,
   rows |-> [i \in 1..Len(rows) |->
               [c \in 1..Len(layout.roles) |-> rows[i][layout.roles[c]]]]]

UnreadableFile == [present |-> TRUE, readable |-> FALSE, columns |-> <<>>, rows |-> <<>>]

\* the file objects with exactly n rows
FilesWith(layouts, specials, rowopts, n) ==
  (IF n = 0 THEN specials ELSE {})
  \cup { MakeFile(l, rows) : l \in layouts, rows \in [1..n -> rowopts] }

\* product-list "Item Name" cells
ItemOptions ==
  { StrCell(<<"A"," ","-"," ","M">>), StrCell(<<"A"," ","-"," ","L">>),
    StrCell(<<"c"," ","-"," ","M">>), NaN }

ProductLists ==
  { [columns |-> <<COL_SKU, COL_ItemName>>,
     rows |-> [i \in 1..Len(items) |-> <<IntCell(i), items[i]>>]] :
      items \in UNION { [1..n -> ItemOptions] : n \in 0..MaxProdRows } }

\* headers and cells of the product lists the post-processing is studied with
COL_OrderNumber == <<"O","r","d","e","r"," ","N","u","m","b","e","r">>
TitleCell == StrCell(<<"a">>)

\* a product-list layout: its headers and the role of each column (title,
\* group value, row number, a column named like a location)
PostLayouts ==
  { [columns |-> <<COL_OrderNumber, COL_ItemName, COL_SKU>>, roles |-> <<"g", "t", "k">>],
    [columns |-> <<COL_SKU, COL_Title>>,                     roles |-> <<"k", "t">>],
    [columns |-> <<Locations[1], COL_ProductName, COL_OrderNumber>>,
                                                             roles |-> <<"l", "t", "g">>],
    [columns |-> <<COL_ItemName, COL_OrderNumber, Locations[2]>>,
                                                             roles |-> <<"t", "g", "l">>] }

\* values of the group column: two orders, one of them also with a leading
\* space, a whitespace-only value and a missing value
GroupOptions ==
  { StrCell(<<"A">>), StrCell(<<"B">>), StrCell(<<" ","A">>), StrCell(<<" ">>), NaN }

PostProductLists ==
  { [columns |-> l.columns,
     rows |-> [i \in 1..Len(groups) |->
                 [c \in 1..Len(l.roles) |->
                    CASE l.roles[c] = "g" -> groups[i]
                      [] l.roles[c] = "t" -> TitleCell
                      [] l.roles[c] = "k" -> IntCell(i)
                      [] OTHER -> IntCell(7)]]] :
      l \in PostLayouts,
      groups \in UNION { [1..n -> GroupOptions] : n \in 0..MaxProdRows } }

\* loc_files with a header-only file for the locations mask selects among
\* the first n
RECURSIVE HeaderOnlyUploads(_, _)
HeaderOnlyUploads(mask, n) ==
  IF n = 0 THEN <<>>
  ELSE IF mask[n]
       THEN Append(HeaderOnlyUploads(mask, n - 1),
                   [loc |-> Locations[n], file |-> MakeFile(FullLayout, <<>>)])
       ELSE HeaderOnlyUploads(mask, n - 1)

\* the group column handed to the grouping step: the order column when the
\* table has one
GroupColumnChoices(df) ==
  {None} \cup { c \in { df.columns[i] : i \in 1..Len(df.columns) } : c = COL_OrderNumber }

\* product-list files of a session
NoTitleProduct ==
  [present |-> TRUE, readable |-> TRUE, columns |-> <<COL_SKU, COL_Name>>,
   rows |-> << <<IntCell(1), StrCell(<<"a">>)>> >>]

SessionProductFiles ==
  {UnreadableFile, NoTitleProduct}
  \cup { [present |-> TRUE, readable |-> TRUE, columns |-> p.columns, rows |-> p.rows] :
           p \in { q \in ProductLists : Len(q.rows) <= 1 } }

(***************************************************************************)
(* app.py lines 241-244: the match-rate metric.  A float division by zero  *)
(* raises ZeroDivisionError; perc is kept as the exact fraction num/den.   *)
(***************************************************************************)
Percent(match_count, total) ==
  IF total # 0
  THEN [raised |-> FALSE, num |-> match_count * 100, den |-> total]
  ELSE [raised |-> FALSE, num |-> 0, den |-> 1]

Metrics(main_df, match_count) ==
  [total |-> Len(main_df.rows), match_count |-> match_count,
   perc |-> Percent(match_count, Len(main_df.rows))]

(***************************************************************************)
(* app.py lines 246-260: the location columns are put after the title      *)
(* column.  The loop state is (final_cols, inserted).                      *)
(***************************************************************************)
\* FinalColsStep without the insertion after the title column
FinalColsStepNoInsert(acc, c, title_col, active_locations) ==
  IF InSeq(active_locations, c) THEN acc
  ELSE [final_cols |-> Append(acc.final_cols, c), inserted |-> acc.inserted]

FinalColsStep(acc, c, title_col, active_locations) ==
  IF InSeq(active_locations, c) THEN acc
  ELSE IF c = title_col /\ ~acc.inserted
       THEN [final_cols |-> Append(acc.final_cols, c) \o active_locations,
             inserted |-> TRUE]
       ELSE [final_cols |-> Append(acc.final_cols, c), inserted |-> acc.inserted]

RECURSIVE FinalColsLoop(_, _, _, _)
FinalColsLoop(cols, title_col, active_locations, n) ==
  IF n = 0 THEN [final_cols |-> <<>>, inserted |-> FALSE]
  ELSE FinalColsStep(FinalColsLoop(cols, title_col, active_locations, n - 1),
                     cols[n], title_col, active_locations)

\* lines 257-258
FinalColsEnd(acc, active_locations) ==
  IF ~acc.inserted
  THEN [final_cols |-> acc.final_cols \o active_locations, inserted |-> FALSE]
  ELSE acc

\* final_cols, with the value the flag "inserted" had when the loop ended
FinalCols(cols, title_col, active_locations) ==
  FinalColsEnd(FinalColsLoop(cols, title_col, active_locations, Len(cols)),
               active_locations)

\* main_df[final_cols].copy()
SelectColumns(df, final_cols) ==
  [columns |-> final_cols,
   rows |-> [i \in 1..Len(df.rows) |->
               [j \in 1..Len(final_cols) |-> RowGet(df, df.rows[i], final_cols[j])]]]

(***************************************************************************)
(* app.py lines 270-300: sort by the group column, group ids, blank rows   *)
(***************************************************************************)
COL_group_id == <<"_","g","r","o","u","p","_","i","d","_">>
SEP_COLORED == "Colored rows (alternating)"
SEP_BLANK == "Blank row between orders"
Separators == {SEP_COLORED, SEP_BLANK}

\* characters in code-point order
CodeOrder == <<" ", ",", "-", ".">> \o DigitChars \o UpperChars \o <<"_">> \o LowerChars
Ord(c) == IndexOf(CodeOrder, c)

\* a <= b for Python strings, from position i on
RECURSIVE StrLeqFrom(_, _, _)
StrLeqFrom(a, b, i) ==
  IF i > Len(a) THEN TRUE
  ELSE IF i > Len(b) THEN FALSE
  ELSE IF a[i] = b[i] THEN StrLeqFrom(a, b, i + 1)
  ELSE Ord(a[i]) < Ord(b[i])

\* x may stand before y in sort_values(group_col, na_position="last")
SortsBefore(x, y) ==
  IF isna(y) THEN TRUE
  ELSE IF isna(x) THEN FALSE
  ELSE StrLeqFrom(x.s, y.s, 1)

\* the row orders sort_values may return: ascending, missing values last, rows
\* of equal value in any order (the default sort is not stable)
SortedOrders(df, group_col) ==
  { o \in Permutations(1..Len(df.rows)) :
      \A i, j \in 1..Len(df.rows) :
        i < j => SortsBefore(RowGet(df, df.rows[o[i]], group_col),
                             RowGet(df, df.rows[o[j]], group_col)) }

\* the rows of df in order o, reset_index(drop=True)
Reordered(df, o) == [df EXCEPT !.rows = [i \in 1..Len(df.rows) |-> df.rows[o[i]]]]

\* lines 275-282: the loop state is (seen, group_ids); seen lists the keys in
\* insertion order, so that seen[key] = position - 1
GroupIdStep(acc, val) ==
  IF isna(val) \/ strip(ToStr(val)) = <<>>
  THEN [seen |-> acc.seen, group_ids |-> Append(acc.group_ids, -1)]
  ELSE IF InSeq(acc.seen, strip(ToStr(val)))
       THEN [seen |-> acc.seen,
             group_ids |-> Append(acc.group_ids, IndexOf(acc.seen, strip(ToStr(val))) - 1)]
       ELSE [seen |-> Append(acc.seen, strip(ToStr(val))),
             group_ids |-> Append(acc.group_ids, Len(acc.seen))]

RECURSIVE GroupIdLoop(_, _, _)
GroupIdLoop(df, group_col, n) ==
  IF n = 0 THEN [seen |-> <<>>, group_ids |-> <<>>]
  ELSE GroupIdStep(GroupIdLoop(df, group_col, n - 1), RowGet(df, df.rows[n], group_col))

\* line 283
WithGroupIds(df, group_ids) ==
  SetColumn(df, COL_group_id, [i \in 1..Len(group_ids) |-> IntCell(group_ids[i])])

GroupIdOf(df, i) == RowGet(df, df.rows[i], COL_group_id).n

\* groupby("_group_id_", sort=False): the ids in order of first appearance
\* among the first n rows
AppendNew(seq, e) == IF InSeq(seq, e) THEN seq ELSE Append(seq, e)

RECURSIVE GroupOrder(_, _)
GroupOrder(df, n) ==
  IF n = 0 THEN <<>> ELSE AppendNew(GroupOrder(df, n - 1), GroupIdOf(df, n))

\* the rows of one group, in table order
RECURSIVE GroupRows(_, _, _)
GroupRows(df, g, n) ==
  IF n = 0 THEN <<>>
  ELSE IF GroupIdOf(df, n) = g
       THEN Append(GroupRows(df, g, n - 1), df.rows[n])
       ELSE GroupRows(df, g, n - 1)

\* line 290
BlankRow(columns) ==
  [j \in 1..Len(columns) |->
     IF columns[j] # COL_group_id THEN StrCell(<<>>) ELSE IntCell(-1)]

\* lines 286-291: parts after the first n groups; a part is a list of rows
RECURSIVE PartsLoop(_, _, _)
PartsLoop(df, order, n) ==
  IF n = 0 THEN <<>>
  ELSE IF order[n] # -1
       THEN PartsLoop(df, order, n - 1)
              \o << GroupRows(df, order[n], Len(df.rows)), <<BlankRow(df.columns)>> >>
       ELSE Append(PartsLoop(df, order, n - 1), GroupRows(df, order[n], Len(df.rows)))

\* pd.concat of the first n parts
RECURSIVE Concat(_, _)
Concat(parts, n) == IF n = 0 THEN <<>> ELSE Concat(parts, n - 1) \o parts[n]

\* line 293
DropTrailing(out_df, parts) ==
  IF Len(parts) > 1
  THEN [columns |-> out_df.columns, rows |-> Concat(parts, Len(parts) - 1)]
  ELSE out_df

PartsOf(out_df, order) == PartsLoop(out_df, order, Len(order))

BlankRowDisplay(out_df) ==
  DropTrailing(out_df, PartsOf(out_df, GroupOrder(out_df, Len(out_df.rows))))

\* lines 285-295 on the sorted table with its group ids
DisplayOf(out_df, separator) ==
  IF separator = SEP_BLANK THEN BlankRowDisplay(out_df) ELSE out_df

\* lines 271-283
SortAndGroup(sorted, group_col) ==
  WithGroupIds(sorted, GroupIdLoop(sorted, group_col, Len(sorted.rows)).group_ids)

\* line 300: drop(columns=["_group_id_"], errors="ignore")
DropGroupId(df) ==
  SelectColumns(df, SelectSeq(df.columns, LAMBDA c : c # COL_group_id))

\* lines 270-300: o is the order the sort returned
OutDisplay(out_df, group_col, separator, o) ==
  IF Truthy(group_col)
  THEN DisplayOf(SortAndGroup(Reordered(out_df, o), group_col), separator)
  ELSE out_df

\* lines 297-300: out_display and the table exported
PostResult(fc, group_col, separator, out_display) ==
  [final_cols |-> fc.final_cols,
   inserted   |-> fc.inserted,
   group_col  |-> group_col,
   separator  |-> separator,
   out_display |-> out_display,
   export_df |-> DropGroupId(out_display)]

\* lines 260-300: fc is final_cols with the flag inserted
PostOrdered(main_df, fc, group_col, separator, o) ==
  PostResult(fc, group_col, separator,
             OutDisplay(SelectColumns(main_df, fc.final_cols), group_col, separator, o))

\* lines 246-300
PostProcessed(main_df, title_col, active_locations, group_col, separator, o) ==
  PostOrdered(main_df, FinalCols(main_df.columns, title_col, active_locations),
              group_col, separator, o)

(***************************************************************************)
(* app.py lines 201-353: one activation of "Process Distribution".         *)
(* What the activation leaves on the page is a record: the error message   *)
(* shown (if any), and whether the warnings panel, the metrics, the        *)
(* preview and the download button were rendered; "end" tells how the try  *)
(* body ended.                                                             *)
(***************************************************************************)
\* the names the module core defines (core.py lines 9, 25, 40, 62, 72, 98, 115,
\* 122, 177)
CoreAttributes ==
  {"normalize_key", "normalize_size", "item_name_to_title_size",
   "build_title_size_key", "identify_columns", "add_title_size_column",
   "_read_uploaded", "load_inventory_from_uploads",
   "add_stock_columns_from_inventory"}

\* the parameters of core.add_stock_columns_from_inventory
AddStockParameters == {"product_df", "item_name_col", "inventory", "locations"}

\* the keyword arguments of the call at app.py lines 233-240
AddStockKeywords ==
  {"product_df", "item_name_col", "inventory", "locations", "sku_col",
   "sku_to_title_size"}

\* the tuple load_inventory_from_uploads returns (core.py line 174)
LoadReturn(r) == <<r.inventory, r.warnings, r.enriched_dfs>>

NoDisplay ==
  [end |-> "none", error |-> "none", warnings |-> FALSE, metrics |-> FALSE,
   preview |-> FALSE, download |-> FALSE]

\* lines 263-350, reached with everything rendered so far in shown
FromGroupBy(shown) ==
  IF "get_group_by_column" \notin CoreAttributes
  THEN [shown EXCEPT !.end = "raised"]                      \* AttributeError
  ELSE [shown EXCEPT !.end = "completed", !.preview = TRUE, !.download = TRUE]

\* lines 232-350
FromJoin(shown) ==
  IF ~(AddStockKeywords \subseteq AddStockParameters)
  THEN [shown EXCEPT !.end = "raised"]                      \* TypeError
  ELSE FromGroupBy([shown EXCEPT !.metrics = TRUE])

\* lines 218-350: ret is the tuple the load returned, unpacked into 4 names
FromLoad(ret) ==
  IF Len(ret) # 4
  THEN [NoDisplay EXCEPT !.end = "raised"]                  \* ValueError
  ELSE FromJoin([NoDisplay EXCEPT !.warnings = (ret[2] # <<>>)])

\* lines 213-350: ret is the tuple identify_columns returned, unpacked into
\* _size_col, _qty_col, title_col, sku_col
FromIdentify(ret, loc_files) ==
  IF Len(ret) # 4
  THEN [NoDisplay EXCEPT !.end = "raised"]                  \* ValueError
  ELSE IF ~Truthy(ret[3])
       THEN [NoDisplay EXCEPT !.end = "stopped", !.error = "no title"]
       ELSE FromLoad(LoadReturn(load_inventory_from_uploads(loc_files)))

\* lines 207-350, the body of the try
TryBody(file, loc_files) ==
  IF ~file.readable
  THEN [NoDisplay EXCEPT !.end = "raised"]                  \* read_csv / read_excel
  ELSE FromIdentify(identify_columns(file.columns), loc_files)

\* ExceptClause with the download button rendered after the try statement
ExceptClauseThenDownload(r) ==
  IF r.end = "raised"
  THEN [r EXCEPT !.error = "exception", !.download = TRUE]
  ELSE [r EXCEPT !.download = TRUE]

\* lines 352-353: except Exception shows "Error: ..."; the exception st.stop()
\* raises is not an Exception and ends the script run
ExceptClause(r) ==
  IF r.end = "raised" THEN [r EXCEPT !.error = "exception"] ELSE r

Handler(file, loc_files) == ExceptClause(TryBody(file, loc_files))

(***************************************************************************)
(* The key of one inventory row (Title, Size) on the aggregation side      *)
(* (core.py lines 146, 163-164) and the full key of the product-list item  *)
(* name "Title - Size" on the lookup side (core.py lines 190-193)          *)
(***************************************************************************)
MaxDotZero == 2     \* ".0" suffixes appended to a size text

RECURSIVE DotZero(_, _)
DotZero(s, k) == IF k = 0 THEN s ELSE DotZero(s, k - 1) \o <<".", "0">>

KeyTitles ==
  { StrCell(<<"A">>), StrCell(<<" ", "b", " ">>), StrCell(<<"A", " ", "-", " ", "B">>),
    StrCell(<<"5", ".", "0">>), IntCell(12), StrCell(<<" ">>), NaN }

SizeTexts ==
  { <<"M">>, <<"5">>, <<" ", "l", " ">>, <<"N", "o", " ", "S", "i", "z", "e">>, <<>> }

KeySizes ==
  { StrCell(DotZero(s, k)) : s \in SizeTexts, k \in 0..MaxDotZero }
  \cup { FloatCell(4, 0), IntCell(7), NaN }

\* the one-row location dataset with its "Title - Size" column (line 146)
KeyRowEnriched(title, size) ==
  add_title_size_column([columns |-> <<COL_Title, COL_Size>>,
                         rows |-> << <<title, size>> >>],
                        identify_columns(<<COL_Title, COL_Size>>)[3],
                        identify_columns(<<COL_Title, COL_Size>>)[1])

KeyOfEnriched(df) == RowKey(df, df.rows[1])

\* lines 146, 163-164
AggregationKey(title, size) == KeyOfEnriched(KeyRowEnriched(title, size))

\* the product-list cell f"{title} - {size}"
ItemNameOf(title, size) == StrCell(ToStr(title) \o SEP \o ToStr(size))

\* lines 190-193: key of the tuple row_key returns
LookupKey(title, size) ==
  row_key([columns |-> <<COL_ItemName>>, rows |-> << <<ItemNameOf(title, size)>> >>],
          <<ItemNameOf(title, size)>>, COL_ItemName)[3]

(***************************************************************************)
(* State                                                                   *)
(***************************************************************************)
VARIABLES
  pc,              \* how far the run under study has got
  headers,         \* df.columns given to identify_columns
  detected,        \* its result (size_col, qty_col, title_col)
  uploaded_files,  \* the dict given to load_inventory_from_uploads
  load_out,        \* its result
  product_df,      \* the product list
  stock_out,       \* result of add_stock_columns_from_inventory
  metrics,         \* the metrics shown
  post_out,        \* result of the post-processing of the joined table
  product_file,    \* the product-list file picked, or None
  debug_mode,      \* the sidebar checkbox
  display,         \* what the last script run rendered for the trigger
  key_in,          \* a Title cell and a Size cell
  key_out          \* the keys the two sides of the match derive from them

vars == <<pc, headers, detected, uploaded_files, load_out, product_df, stock_out,
          metrics, post_out, product_file, debug_mode, display, key_in, key_out>>

EmptyDf == [columns |-> <<>>, rows |-> <<>>]
NoLoad == [inventory |-> <<>>, warnings |-> <<>>, enriched_dfs |-> <<>>]
NoStock == [df |-> EmptyDf, match_count |-> 0]
NoMetrics == [total |-> 0, match_count |-> 0, perc |-> [raised |-> FALSE, num |-> 0, den |-> 1]]

ColumnsIdle == headers = <<>> /\ detected = <<None, None, None>>
CoreIdle ==
  /\ uploaded_files = <<>> /\ load_out = NoLoad
  /\ product_df = EmptyDf /\ stock_out = NoStock /\ metrics = NoMetrics

NoPost ==
  [final_cols |-> <<>>, inserted |-> FALSE, group_col |-> None, separator |-> "",
   out_display |-> EmptyDf, export_df |-> EmptyDf]

PostIdle == post_out = NoPost
SessionIdle == product_file = NoneFile /\ debug_mode = FALSE /\ display = NoDisplay

NoKeyIn == [title |-> NaN, size |-> NaN]
NoKeyOut == [agg |-> <<>>, full |-> <<>>, size_once |-> <<>>, size_twice |-> <<>>]
KeysIdle == key_in = NoKeyIn /\ key_out = NoKeyOut

keyVars == <<key_in, key_out>>
columnVars == <<headers, detected>>
coreVars == <<uploaded_files, load_out, product_df, stock_out, metrics>>
sessionVars == <<product_file, debug_mode, display>>

\* list(loc_files.keys())
ActiveLocations(uploads) == [i \in 1..Len(uploads) |-> uploads[i].loc]

(***************************************************************************)
(* identify_columns applied to a header list                               *)
(***************************************************************************)
InitColumns ==
  /\ pc = "start"
  /\ headers \in DistinctSeqs(HeaderPool, MaxCols)
  /\ detected = <<None, None, None>>
  /\ CoreIdle /\ PostIdle /\ SessionIdle /\ KeysIdle

IdentifyColumns ==
  /\ pc = "start"
  /\ detected' = identify_columns(headers)
  /\ pc' = "identified"
  /\ UNCHANGED <<headers, coreVars, post_out, keyVars, sessionVars>>

NextColumns == IdentifyColumns

SpecColumns == InitColumns /\ [][NextColumns]_vars

(***************************************************************************)
(* The core calls of the pipeline: load, join, metrics                     *)
(***************************************************************************)
RECURSIVE TotalRows(_)
TotalRows(uploads) ==
  IF uploads = <<>> THEN 0 ELSE Len(Head(uploads).file.rows) + TotalRows(Tail(uploads))

LastLocIndex(uploads) ==
  IF uploads = <<>> THEN 0 ELSE IndexOf(Locations, uploads[Len(uploads)].loc)

\* app.py lines 189-193: a file is picked in a location's tab; loc_files holds
\* the picked files in tab order
PickFile(layouts, specials, rowopts) ==
  \E i \in (LastLocIndex(uploaded_files) + 1)..NumLocs,
     n \in 0..(MaxInvRows - TotalRows(uploaded_files)) :
    \E f \in FilesWith(layouts, specials, rowopts, n) :
      uploaded_files' = Append(uploaded_files, [loc |-> Locations[i], file |-> f])

UploadFile(layouts, specials, rowopts) ==
  /\ pc = "start"
  /\ PickFile(layouts, specials, rowopts)
  /\ UNCHANGED <<pc, columnVars, load_out, product_df, stock_out, metrics, post_out, keyVars,
                 sessionVars>>

UploadAnyFile == UploadFile(Layouts, {UnreadableFile}, InvRowOptions)

UploadInventoryFile == UploadFile({FullLayout}, {}, JoinRowOptions)

LoadInventory ==
  /\ pc = "start"
  /\ load_out' = load_inventory_from_uploads(uploaded_files)
  /\ pc' = "loaded"
  /\ UNCHANGED <<columnVars, uploaded_files, product_df, stock_out, metrics,
                 post_out, keyVars, sessionVars>>

\* app.py lines 232-244 on a product list: the join and the metrics
AddStockColumns ==
  /\ pc = "loaded"
  /\ \E p \in ProductLists :
       /\ product_df' = p
       /\ stock_out' = add_stock_columns_from_inventory(
                         p, identify_columns(p.columns)[3],
                         load_out.inventory, ActiveLocations(uploaded_files))
       /\ metrics' = Metrics(stock_out'.df, stock_out'.match_count)
  /\ pc' = "joined"
  /\ UNCHANGED <<columnVars, uploaded_files, load_out, post_out, keyVars, sessionVars>>

InitCore == pc = "start" /\ ColumnsIdle /\ CoreIdle /\ PostIdle /\ SessionIdle /\ KeysIdle

NextLoad == UploadAnyFile \/ LoadInventory

\* every kind of location file
SpecLoad == InitCore /\ [][NextLoad]_vars

NextJoin == UploadInventoryFile \/ LoadInventory \/ AddStockColumns

\* well-formed location files, every product list
SpecJoin == InitCore /\ [][NextJoin]_vars

(***************************************************************************)
(* Key derivation applied to a Title cell and a Size cell                  *)
(***************************************************************************)
InitKeys ==
  /\ pc = "start"
  /\ ColumnsIdle /\ CoreIdle /\ PostIdle /\ SessionIdle
  /\ key_in \in [title : KeyTitles, size : KeySizes]
  /\ key_out = NoKeyOut

DeriveKeys ==
  /\ pc = "start"
  /\ key_out' = [agg  |-> AggregationKey(key_in.title, key_in.size),
                 full |-> LookupKey(key_in.title, key_in.size),
                 size_once  |-> normalize_size(key_in.size),
                 size_twice |-> normalize_size(StrCell(normalize_size(key_in.size)))]
  /\ pc' = "derived"
  /\ UNCHANGED <<key_in, columnVars, coreVars, post_out, sessionVars>>

NextKeys == DeriveKeys

SpecKeys == InitKeys /\ [][NextKeys]_vars

(***************************************************************************)
(* The post-processing of a joined table (app.py lines 246-300)            *)
(***************************************************************************)
InitPost ==
  /\ pc = "joined"
  /\ ColumnsIdle /\ PostIdle /\ SessionIdle /\ KeysIdle
  /\ uploaded_files \in { HeaderOnlyUploads(mask, NumLocs) : mask \in [1..NumLocs -> BOOLEAN] }
  /\ load_out = load_inventory_from_uploads(uploaded_files)
  /\ product_df \in PostProductLists
  /\ stock_out = add_stock_columns_from_inventory(
                   product_df, identify_columns(product_df.columns)[3],
                   load_out.inventory, ActiveLocations(uploaded_files))
  /\ metrics = Metrics(stock_out.df, stock_out.match_count)

\* the order in which sort_values leaves the rows, when it is called
SortChoices(out_df, group_col) ==
  IF Truthy(group_col) THEN SortedOrders(out_df, group_col)
  ELSE {[i \in 1..Len(out_df.rows) |-> i]}

PostProcess ==
  /\ pc = "joined"
  /\ \E group_col \in GroupColumnChoices(stock_out.df) :
       \E separator \in (IF Truthy(group_col) THEN Separators ELSE {""}) :
         \E o \in SortChoices(stock_out.df, group_col) :
           post_out' = PostProcessed(stock_out.df,
                                     identify_columns(product_df.columns)[3],
                                     ActiveLocations(uploaded_files),
                                     group_col, separator, o)
  /\ pc' = "post"
  /\ UNCHANGED <<columnVars, coreVars, sessionVars, keyVars>>

NextPost == PostProcess

SpecPost == InitPost /\ [][NextPost]_vars

(***************************************************************************)
(* The session (app.py lines 182-353).  Every interaction reruns the       *)
(* script; only the run a click on "Process Distribution" starts enters    *)
(* the handler, any other run renders the pickers and the button alone.    *)
(***************************************************************************)
InitSession == pc = "idle" /\ ColumnsIdle /\ CoreIdle /\ PostIdle /\ SessionIdle /\ KeysIdle

\* line 182
PickProductList ==
  /\ \E f \in SessionProductFiles : product_file' = f
  /\ display' = NoDisplay
  /\ pc' = "idle"
  /\ UNCHANGED <<columnVars, coreVars, post_out, keyVars, debug_mode>>

\* lines 189-193
PickLocationFile ==
  /\ PickFile({FullLayout, NoTitleLayout}, {UnreadableFile}, JoinRowOptions)
  /\ display' = NoDisplay
  /\ pc' = "idle"
  /\ UNCHANGED <<columnVars, load_out, product_df, stock_out, metrics, post_out, keyVars,
                 product_file, debug_mode>>

\* line 197
ToggleDebug ==
  /\ debug_mode' = ~debug_mode
  /\ display' = NoDisplay
  /\ pc' = "idle"
  /\ UNCHANGED <<columnVars, coreVars, post_out, keyVars, product_file>>

\* lines 201-353: the button exists when a product file is picked; a click
\* runs the handler to its end
ProcessDistribution ==
  /\ product_file.present
  /\ display' = Handler(product_file, uploaded_files)
  /\ pc' = "shown"
  /\ UNCHANGED <<columnVars, coreVars, post_out, keyVars, product_file, debug_mode>>

Next == PickProductList \/ PickLocationFile \/ ToggleDebug \/ ProcessDistribution

Spec == InitSession /\ [][Next]_vars

\* the states of the session flow, read off what the page shows
AwaitingProductList == ~product_file.present
AwaitingProcessTrigger == product_file.present /\ ~display.download
ResultsDisplayed == display.download
ErrorDisplayed == display.error # "none"

(***************************************************************************)
(* Properties of identify_columns                                          *)
(***************************************************************************)
IsExplicitName(c) ==
  contains(LowerKey(c), H_ITEM_NAME) \/ contains(LowerKey(c), H_PRODUCT_NAME)

HasExplicitName(cols) == \E i \in 1..Len(cols) : IsExplicitName(cols[i])

\* C5: whenever some header contains "item name" or "product name", the Title
\* column returned is such a header, whatever the column order; a header that
\* only contains "title" is returned only when no header contains either.
C5_ItemNamePreferred ==
  pc = "identified" =>
    /\ HasExplicitName(headers) => (detected[3] # None /\ IsExplicitName(detected[3]))
    /\ (detected[3] # None /\ ~IsExplicitName(detected[3])) => ~HasExplicitName(headers)

(***************************************************************************)
(* Properties of load_inventory_from_uploads                               *)
(***************************************************************************)
\* what a location file holds, read off the file alone: whether its rows are
\* aggregated (it is read and has a Title column), whether it lacks a
\* Quantity column, and the Title-Size key and parsed quantity of each row
FileViewOf(file, raw, cols, agg) ==
  [agg   |-> agg,
   bad   |-> file.present /\ ~agg,
   noqty |-> agg /\ ~Truthy(cols[2]),
   keys  |-> [n \in 1..Len(file.rows) |->
                casefold(normalize_key(
                  StrCell(Joined(raw, file.rows[n], cols[3], cols[1]))))],
   qtys  |-> [n \in 1..Len(file.rows) |-> ParseQty(raw, file.rows[n], cols[2])]]

FileViewCols(file, cols) ==
  FileViewOf(file, [columns |-> file.columns, rows |-> file.rows], cols,
             file.present /\ file.readable /\ Truthy(cols[3]))

FileView(file) == FileViewCols(file, identify_columns(file.columns))

Views(uploads) == [i \in 1..Len(uploads) |-> FileView(uploads[i].file)]

\* sum of the parsed quantities of the first n rows of a file whose key is k
RECURSIVE SumQty(_, _, _)
SumQty(view, k, n) ==
  IF n = 0 THEN 0
  ELSE SumQty(view, k, n - 1) + (IF view.keys[n] = k THEN view.qtys[n] ELSE 0)

FileTotal(view, k) == IF view.agg THEN SumQty(view, k, Len(view.keys)) ELSE 0

KeysOfFile(view) ==
  IF view.agg THEN { view.keys[n] : n \in 1..Len(view.keys) } \ {<<>>} ELSE {}

WarningsFor(warnings, loc) == { w \in 1..Len(warnings) : warnings[w].loc = loc }

Loaded == pc # "start"

\* C2: after the load, inventory[k][L] is the sum of the parsed quantities of
\* the rows of L's file whose key is k (0 when there is none), for every key
\* and every location; the keys are exactly the non-empty keys of the rows.
C2_InventorySums ==
  Loaded =>
    LET inv == load_out.inventory
        N   == Len(uploaded_files)
        v   == Views(uploaded_files)
    IN  /\ DOMAIN inv = UNION { KeysOfFile(v[i]) : i \in 1..N }
        /\ \A k \in DOMAIN inv :
             /\ DOMAIN inv[k] = { uploaded_files[i].loc : i \in 1..N }
             /\ \A i \in 1..N : inv[k][uploaded_files[i].loc] = FileTotal(v[i], k)

\* two rows of one file share a key, both with a non-zero quantity, and another
\* location is present
C2_Witness ==
  /\ pc = "loaded"
  /\ Len(uploaded_files) = 2
  /\ \E i \in 1..Len(uploaded_files) :
       LET f == FileView(uploaded_files[i].file)
       IN  /\ f.agg /\ Len(f.keys) = 2
           /\ f.keys[1] = f.keys[2] /\ f.keys[1] # <<>>
           /\ f.qtys[1] # 0 /\ f.qtys[2] # 0
           /\ load_out.inventory[f.keys[1]][uploaded_files[i].loc] = f.qtys[1] + f.qtys[2]

\* uploaded_files with every bad file replaced by an absent one (None)
Blanked(uploads, v) ==
  [i \in 1..Len(uploads) |->
     IF v[i].bad THEN [loc |-> uploads[i].loc, file |-> NoneFile] ELSE uploads[i]]

EnrichedLocs(out) == { out.enriched_dfs[i].loc : i \in 1..Len(out.enriched_dfs) }

\* C3: a location file without a Title column, or whose reading raises,
\* contributes no key and no quantity and yields exactly one warning naming
\* its location; the inventory is the one obtained with the bad files absent.
C3_BadFileContained ==
  Loaded =>
    LET v == Views(uploaded_files)
    IN  /\ load_out.inventory
             = load_inventory_from_uploads(Blanked(uploaded_files, v)).inventory
        /\ \A i \in 1..Len(uploaded_files) :
             v[i].bad =>
               /\ Cardinality(WarningsFor(load_out.warnings, uploaded_files[i].loc)) = 1
               /\ uploaded_files[i].loc \notin EnrichedLocs(load_out)
               /\ \A k \in DOMAIN load_out.inventory :
                    load_out.inventory[k][uploaded_files[i].loc] = 0

\* a bad file carrying rows stands beside a file that contributes a quantity
C3_Witness ==
  /\ pc = "loaded"
  /\ Len(load_out.warnings) = 1
  /\ \E i, j \in 1..Len(uploaded_files) :
       /\ FileView(uploaded_files[i].file).bad
       /\ Len(uploaded_files[i].file.rows) > 0
       /\ FileView(uploaded_files[j].file).agg
       /\ \E k \in DOMAIN load_out.inventory :
            load_out.inventory[k][uploaded_files[j].loc] > 0

\* C4: a location file with a Title column and no Quantity column is not
\* skipped: one "Missing Quantity" warning, every row with a non-empty key has
\* its key in the inventory, and the location's quantity is 0 for every key.
C4_MissingQuantity ==
  Loaded =>
    \A i \in 1..Len(uploaded_files) :
      LET f   == FileView(uploaded_files[i].file)
          loc == uploaded_files[i].loc
      IN  f.noqty =>
            /\ \A w \in WarningsFor(load_out.warnings, loc) :
                 load_out.warnings[w].kind = "MissingQuantity"
            /\ Cardinality(WarningsFor(load_out.warnings, loc)) = 1
            /\ loc \in EnrichedLocs(load_out)
            /\ \A n \in 1..Len(f.keys) :
                 f.keys[n] # <<>> => f.keys[n] \in DOMAIN load_out.inventory
            /\ \A k \in DOMAIN load_out.inventory : load_out.inventory[k][loc] = 0

\* the only file with rows has no Quantity column, and its keys are in the map
C4_Witness ==
  /\ pc = "loaded"
  /\ \E i \in 1..Len(uploaded_files) :
       /\ FileView(uploaded_files[i].file).noqty
       /\ Len(uploaded_files[i].file.rows) = 2
       /\ Cardinality(DOMAIN load_out.inventory) = 2
       /\ \A j \in 1..Len(uploaded_files) :
            j # i => uploaded_files[j].file.rows = <<>>

(***************************************************************************)
(* Properties of add_stock_columns_from_inventory and of the metrics       *)
(***************************************************************************)
JoinDone == pc = "joined"

\* the full key and the title-only key of product-list row i
ProductKeys(i) ==
  row_key(product_df, product_df.rows[i], identify_columns(product_df.columns)[3])

\* the cell the two-tier rule prescribes for keys rk at location loc
TwoTierCell(inv, rk, loc) ==
  IF rk[3] \in DOMAIN inv THEN IntCell(inv[rk[3]][loc])
  ELSE IF rk[4] \in DOMAIN inv THEN IntCell(inv[rk[4]][loc])
  ELSE IntCell(0)

InEitherTier(inv, rk) == rk[3] \in DOMAIN inv \/ rk[4] \in DOMAIN inv

RowFollowsTwoTier(inv, locs, i, rk) ==
  \A l \in 1..Len(locs) :
    RowGet(stock_out.df, stock_out.df.rows[i], locs[l]) = TwoTierCell(inv, rk, locs[l])

\* C1: for every product-list row and active location the stock cell is the
\* full-key entry's quantity when the full key is in the Inventory Map, else
\* the title-only entry's quantity when that key is in the map, else 0; the
\* rows counted as matched are exactly those of the first two cases.
C1_TwoTierLookup ==
  JoinDone =>
    LET inv  == load_out.inventory
        locs == ActiveLocations(uploaded_files)
        n    == Len(product_df.rows)
    IN  /\ Len(stock_out.df.rows) = n
        /\ \A i \in 1..n : RowFollowsTwoTier(inv, locs, i, ProductKeys(i))
        /\ locs # <<>> =>
             stock_out.match_count
               = Cardinality({ i \in 1..n : InEitherTier(inv, ProductKeys(i)) })

\* a row whose full key and title-only key are both in the map with different
\* quantities at a location, beside a row found by its title-only key alone
C1_Witness ==
  /\ JoinDone
  /\ \E i, j \in 1..Len(product_df.rows) :
       /\ ProductKeys(i)[3] \in DOMAIN load_out.inventory
       /\ ProductKeys(i)[4] \in DOMAIN load_out.inventory
       /\ ProductKeys(i)[3] # ProductKeys(i)[4]
       /\ \E l \in 1..Len(uploaded_files) :
            load_out.inventory[ProductKeys(i)[3]][uploaded_files[l].loc]
              # load_out.inventory[ProductKeys(i)[4]][uploaded_files[l].loc]
       /\ ProductKeys(j)[3] \notin DOMAIN load_out.inventory
       /\ ProductKeys(j)[4] \in DOMAIN load_out.inventory

\* the rows that matched in the pass of at least one active location
MatchedRows ==
  { i \in 1..Len(product_df.rows) :
      \E l \in 1..Len(uploaded_files) :
        Lookup(load_out.inventory, ProductKeys(i), uploaded_files[l].loc).found }

\* C9: the matched count is the number of distinct rows that matched in at
\* least one location's pass, so it lies between 0 and the row count; the
\* percentage is matched/total*100, and 0 without a division error when the
\* product list has no rows.
C9_MatchedCount ==
  JoinDone =>
    /\ stock_out.match_count = Cardinality(MatchedRows)
    /\ 0 <= stock_out.match_count /\ stock_out.match_count <= Len(product_df.rows)
    /\ metrics.total = Len(product_df.rows)
    /\ metrics.match_count = stock_out.match_count
    /\ ~metrics.perc.raised
    /\ metrics.total # 0 =>
         metrics.perc.num * metrics.total = stock_out.match_count * 100 * metrics.perc.den
    /\ metrics.total = 0 => metrics.perc.num = 0

\* one of two rows matched, under two locations at once
C9_Witness ==
  /\ JoinDone
  /\ Len(uploaded_files) = 2
  /\ Len(product_df.rows) = 2
  /\ stock_out.match_count = 1
  /\ \E i \in 1..2 :
       \A l \in 1..2 : RowGet(stock_out.df, stock_out.df.rows[i], uploaded_files[l].loc).n > 0

(***************************************************************************)
(* Properties of the post-processing                                       *)
(***************************************************************************)
PostDone == pc = "post"

SeqSet(seq) == { seq[i] : i \in 1..Len(seq) }

\* seq without the elements of the sequence drop
Without(seq, drop) == SelectSeq(seq, LAMBDA c : ~InSeq(drop, c))

\* block stands in seq right after position p
BlockAfter(seq, p, block) ==
  /\ p + Len(block) <= Len(seq)
  /\ \A k \in 1..Len(block) : seq[p + k] = block[k]

ReorderedAsSpecified(cols, final_cols, inserted, title_col, active) ==
  /\ SeqSet(final_cols) = SeqSet(cols) \cup SeqSet(active)
  /\ Cardinality(SeqSet(final_cols)) = Len(final_cols)
  /\ Without(final_cols, active) = Without(cols, active)
  /\ IF InSeq(cols, title_col)
     THEN inserted /\ BlockAfter(final_cols, IndexOf(final_cols, title_col), active)
     ELSE ~inserted /\ final_cols = Without(cols, active) \o active

\* C6: after the reordering the active location columns form one block, in
\* selection order, right after the product list's Title column; the other
\* product-list columns keep their relative order; every column appears
\* once; the block is appended at the end only when the Title column is not
\* among the columns.  The exported table has these columns.
C6_LocationBlockAfterTitle ==
  PostDone =>
    /\ ReorderedAsSpecified(stock_out.df.columns, post_out.final_cols, post_out.inserted,
                          identify_columns(product_df.columns)[3],
                          ActiveLocations(uploaded_files))
    /\ Without(post_out.final_cols, ActiveLocations(uploaded_files))
         = Without(product_df.columns, ActiveLocations(uploaded_files))
    /\ post_out.export_df.columns = post_out.final_cols

\* two active locations, one of them already a column of the product list
\* standing before the Title column, and a column after the Title column
C6_Witness ==
  /\ PostDone
  /\ product_df.columns = <<Locations[1], COL_ProductName, COL_OrderNumber>>
  /\ ActiveLocations(uploaded_files) = <<Locations[1], Locations[2]>>
  /\ post_out.final_cols = <<COL_ProductName, Locations[1], Locations[2], COL_OrderNumber>>
  /\ Len(post_out.export_df.rows) > 0

\* the distinct non-empty group values of the product list
GroupValues ==
  { strip(ToStr(RowGet(product_df, product_df.rows[i], post_out.group_col))) :
      i \in { j \in 1..Len(product_df.rows) :
                ~isna(RowGet(product_df, product_df.rows[j], post_out.group_col)) } }
  \ {<<>>}

IsBlankRow(row) == \A j \in 1..Len(row) : row[j] = StrCell(<<>>)

BlankRowsOf(df) == { i \in 1..Len(df.rows) : IsBlankRow(df.rows[i]) }

BlankMode == PostDone /\ Truthy(post_out.group_col) /\ post_out.separator = SEP_BLANK

\* C7: in blank-row mode with G >= 1 distinct non-empty group values, whether
\* or not some rows have a missing or empty group value, the output has
\* exactly G - 1 blank separator rows and its final row is a data row.
C7_NoTrailingBlank ==
  (BlankMode /\ Cardinality(GroupValues) >= 1) =>
    /\ Cardinality(BlankRowsOf(post_out.export_df)) = Cardinality(GroupValues) - 1
    /\ Len(post_out.export_df.rows) > 0
    /\ ~IsBlankRow(post_out.export_df.rows[Len(post_out.export_df.rows)])

\* the rows of df that are not blank separator rows
DataRowsOf(df) == SelectSeq(df.rows, LAMBDA r : ~IsBlankRow(r))

CountIn(seq, x) == Cardinality({ i \in 1..Len(seq) : seq[i] = x })

\* a and b hold the same rows, each as many times
SameRows(a, b) ==
  /\ Len(a) = Len(b)
  /\ \A i \in 1..Len(a) : CountIn(a, a[i]) = CountIn(b, a[i])

\* C12: for every result table with a Group-By column, also when rows with a
\* missing group value are sorted last, the output without its blank
\* separator rows holds exactly the rows of the sorted result table, each
\* once: the trailing-blank removal drops nothing but a blank separator row.
C12_RowsPreserved ==
  (PostDone /\ Truthy(post_out.group_col)) =>
    SameRows(DataRowsOf(post_out.export_df),
             SelectColumns(stock_out.df, post_out.final_cols).rows)

(***************************************************************************)
(* Properties of the session                                               *)
(***************************************************************************)
Activated == pc = "shown"

\* the product list has a detectable Title column and every location file
\* is read and has one
GoodInputs ==
  /\ product_file.present /\ product_file.readable
  /\ Truthy(identify_columns(product_file.columns)[3])
  /\ \A i \in 1..Len(uploaded_files) :
       /\ uploaded_files[i].file.readable
       /\ Truthy(identify_columns(uploaded_files[i].file.columns)[3])

\* C8: an activation with a product list that has a detectable Title column
\* and location files that all load without error ends in ResultsDisplayed
\* (metrics, preview and download rendered), not in Error: the calls into
\* the core library complete without raising.
C8_GoodInputsDisplayResults ==
  (Activated /\ GoodInputs) =>
    /\ ResultsDisplayed /\ ~ErrorDisplayed
    /\ display.end = "completed"
    /\ display.metrics /\ display.preview

\* C10: a step that is an activation in which an error is displayed offers no
\* download, leaves the product file and the location files as they were,
\* and leaves the trigger available (AwaitingProcessTrigger).
C10_ErrorOffersNoDownload ==
  [][ (pc' = "shown" /\ display'.error # "none") =>
        /\ ~display'.download
        /\ product_file' = product_file /\ uploaded_files' = uploaded_files
        /\ product_file'.present
        /\ display'.end \in {"raised", "stopped"} ]_vars

\* an activation with a readable product list and a location file ended with
\* an error on the page
C10_Witness ==
  /\ Activated /\ ErrorDisplayed
  /\ AwaitingProcessTrigger
  /\ product_file.readable
  /\ Len(uploaded_files) > 0

(***************************************************************************)
(* Properties of the key derivation                                        *)
(***************************************************************************)
KeysDerived == pc = "derived"

\* the title is non-empty and the size does not normalize to NO_SIZE
KeyedInput == normalize_key(key_in.title) # <<>> /\ key_out.size_once # NO_SIZE

\* C11: for every non-empty title T and every size S that does not normalize
\* to NO_SIZE, the key the load stores the inventory row (T, S) under is the
\* full key the join computes for the item name "T - S"; and normalize_size
\* is idempotent on every input.
C11_KeysAgree ==
  KeysDerived =>
    /\ KeyedInput => key_out.agg = key_out.full
    /\ key_out.size_twice = key_out.size_once

=============================================================================
